---- MODULE Spec2Model ----
(***************************************************************************)
(* Model of the LangChain calculator agent: src/src/agent.py (the          *)
(* orchestrator CalculatorAgent.ask, the response normaliser and the       *)
(* restricted expression evaluator), src/src/tools/arithmetic.py (the four *)
(* arithmetic tools) and src/src/main.py (the command-line entry point).   *)
(*                                                                         *)
(* A Python str is a sequence of one-character strings.  The two fixed     *)
(* messages are carried as one-element sequences holding the whole         *)
(* sentence: neither contains a digit, neither starts or ends with white   *)
(* space, and neither is a float literal, which is all that strip(), the   *)
(* regular expressions and float() of the code can observe of them.        *)
(*                                                                         *)
(* A Python float is a signed fraction <<sign, numerator, denominator>> in *)
(* lowest terms; the sign is kept on zero, as IEEE-754 keeps it.  The four *)
(* operations are exact: binary rounding is not modelled.  A decimal       *)
(* expansion that does not end is printed to ReprDigits digits, followed   *)
(* by the element "...".                                                   *)
(***************************************************************************)
EXTENDS Integers, Sequences, FiniteSets, TLC

VARIABLES
    pc,         \* position of main(): "start", "oneshot", "loop", "exit"; "api" when ask is called directly
    status,     \* exit status of the process, -1 while it runs
    env,        \* [key, runtime]: OPENAI_API_KEY is set, the LangChain runtime can be built
    args,       \* [given, query, fallback]: the parsed command line
    fallback,   \* CalculatorAgent._deterministic_fallback
    user_input, \* the last line main() read at its prompt, stripped
    query,      \* the argument of the current (or last) call of ask
    askpc,      \* "idle", or "llm" while ask is blocked in executor.invoke
    llmCalls,   \* calls of _run_langchain made by the current ask
    fbCalls,    \* calls of _evaluate_pure_expression made by the current ask
    llmRaised,  \* the runtime call of the current ask raised
    rawOut,     \* the "output" text executor.invoke returned to the current ask
    llmOut,     \* what _run_langchain returned to the current ask
    evalRes,    \* outcome of _evaluate_pure_expression in the current ask
    response,   \* the string the current ask returned
    answered,   \* number of times the current ask returned
    printed,    \* number of lines main() printed, its greeting and "Goodbye." aside
    stdout      \* the last of those lines

vars == <<pc, status, env, args, fallback, user_input, query, askpc, llmCalls, fbCalls,
          llmRaised, rawOut, llmOut, evalRes, response, answered, printed, stdout>>

(***************************************************************************)
(* Bounds of the explored inputs.                                          *)
(***************************************************************************)
MaxQueryLen == 4
MaxExprLen == 5
MaxDeepLen == 7
MaxTextLen == 5
MaxLines == 2

(***************************************************************************)
(* Characters.                                                             *)
(***************************************************************************)
Digits == {"0", "1", "2", "3", "4", "5", "6", "7", "8", "9"}

IsDigit(c) == c \in Digits

\* White space: the space and the line break stand for the characters that
\* str.strip() removes and \s matches.
Whitespace == {" ", "\n"}

IsSpace(c) == c \in Whitespace

DigitVal(c) ==
    CASE c = "0" -> 0 [] c = "1" -> 1 [] c = "2" -> 2 [] c = "3" -> 3
      [] c = "4" -> 4 [] c = "5" -> 5 [] c = "6" -> 6 [] c = "7" -> 7
      [] c = "8" -> 8 [] c = "9" -> 9

DigitChar(n) ==
    CASE n = 0 -> "0" [] n = 1 -> "1" [] n = 2 -> "2" [] n = 3 -> "3"
      [] n = 4 -> "4" [] n = 5 -> "5" [] n = 6 -> "6" [] n = 7 -> "7"
      [] n = 8 -> "8" [] n = 9 -> "9"

\* F(v), with v computed once.
With(v, F(_)) == CHOOSE y \in {F(x) : x \in {v}} : TRUE

\* All strings over an alphabet, of length at most n.
StringsUpTo(chars, n) == UNION {[1..k -> chars] : k \in 0..n}

(***************************************************************************)
(* The fixed user-facing strings (the setup message without the back       *)
(* quotes of the source).                                                  *)
(***************************************************************************)
OUT_OF_SCOPE_MESSAGE ==
    <<"I can only help with basic arithmetic (add/subtract/multiply/divide). Please provide a math expression.">>

TOOL_FAILURE_MESSAGE ==
    <<"I couldn't compute that due to invalid input (e.g., division by zero or non-numeric values).">>

LLM_SETUP_MESSAGE ==
    <<"LLM runtime is unavailable. Set OPENAI_API_KEY and install required dependencies (langchain, langchain-openai, python-dotenv).">>

(***************************************************************************)
(* str.strip()                                                             *)
(***************************************************************************)
RECURSIVE LStrip(_)
LStrip(s) ==
    IF s # <<>> /\ IsSpace(Head(s)) THEN LStrip(Tail(s)) ELSE s

RECURSIVE RStrip(_)
RStrip(s) ==
    IF s # <<>> /\ IsSpace(s[Len(s)]) THEN RStrip(SubSeq(s, 1, Len(s) - 1)) ELSE s

\* The string as it is, nothing removed.
NoStrip(s) == s

Strip(s) == RStrip(LStrip(s))

(***************************************************************************)
(* Floats.                                                                 *)
(***************************************************************************)
RECURSIVE GCD(_, _)
GCD(a, b) == IF b = 0 THEN a ELSE With(a % b, LAMBDA r : GCD(b, r))

Norm(s, n, d) ==
    IF n = 0 THEN <<s, 0, 1>>
    ELSE With(GCD(n, d), LAMBDA g : <<s, n \div g, d \div g>>)

PosZero == <<1, 0, 1>>

FromInt(n) == <<1, n, 1>>

IsZero(x) == x[2] = 0

FNeg(x) == <<-x[1], x[2], x[3]>>

FAdd(x, y) ==
    LET t == x[1] * x[2] * y[3] + y[1] * y[2] * x[3]
        d == x[3] * y[3]
    IN  IF t = 0 THEN <<IF x[1] = -1 /\ y[1] = -1 THEN -1 ELSE 1, 0, 1>>
        ELSE IF t > 0 THEN Norm(1, t, d) ELSE Norm(-1, -t, d)

FSub(x, y) == FAdd(x, FNeg(y))

FMul(x, y) == Norm(x[1] * y[1], x[2] * y[2], x[3] * y[3])

FDiv(x, y) == Norm(x[1] * y[1], x[2] * y[3], x[3] * y[2])

(***************************************************************************)
(* Outcomes of a tool or of an evaluation: a float, or a raised exception. *)
(***************************************************************************)
Ok(v) == [ok |-> TRUE, val |-> v, err |-> "none"]

Raise(e) == [ok |-> FALSE, val |-> PosZero, err |-> e]

DivisionByZero == "ValueError: Division by zero is not allowed."

UnsupportedExpression == "ValueError: Unsupported expression."

SyntaxError == "SyntaxError"

NotEvaluated == Raise("not evaluated")

(***************************************************************************)
(* The arithmetic tools.  _to_float of a float is that float.              *)
(***************************************************************************)
add(a, b) == Ok(FAdd(a, b))

subtract(a, b) == Ok(FSub(a, b))

multiply(a, b) == Ok(FMul(a, b))

divide(a, b) == IF IsZero(b) THEN Raise(DivisionByZero) ELSE Ok(FDiv(a, b))

(***************************************************************************)
(* The strict gate of the fallback.                                        *)
(***************************************************************************)
OperatorChars == {"+", "-", "*", "/"}

GateChars == Digits \cup Whitespace \cup OperatorChars \cup {"(", ")", "."}

\* The gate without its search for an operator.
GateNoOperatorCheck(q) ==
    /\ q # <<>>
    /\ \A i \in 1..Len(q) : q[i] \in GateChars
    /\ \E i \in 1..Len(q) : IsDigit(q[i])

\* re.fullmatch of the character class, then a digit and an operator.
IsStrictPureExpression(q) ==
    /\ q # <<>>
    /\ \A i \in 1..Len(q) : q[i] \in GateChars
    /\ \E i \in 1..Len(q) : IsDigit(q[i])
    /\ \E i \in 1..Len(q) : q[i] \in OperatorChars

(***************************************************************************)
(* ast.parse(expression, mode="eval"), on the characters the gate lets     *)
(* through: Python's tokenizer, then its expression grammar.               *)
(***************************************************************************)
\* The first position from i on that holds no digit.
RECURSIVE DigitRunEnd(_, _)
DigitRunEnd(s, i) ==
    IF i <= Len(s) /\ IsDigit(s[i]) THEN DigitRunEnd(s, i + 1) ELSE i

\* The number written by the digits s[i..j-1] (0 for none).
RECURSIVE DigitsValue(_, _, _)
DigitsValue(s, i, j) ==
    IF j <= i THEN 0 ELSE 10 * DigitsValue(s, i, j - 1) + DigitVal(s[j - 1])

RECURSIVE Pow10(_)
Pow10(k) == IF k = 0 THEN 1 ELSE 10 * Pow10(k - 1)

\* The float of the literal with integer digits s[i..j-1] and fraction digits s[j+1..k-1].
LiteralValue(s, i, j, k) ==
    Norm(1, DigitsValue(s, i, j) * Pow10(k - j - 1) + DigitsValue(s, j + 1, k),
         Pow10(k - j - 1))

Tok(t, sym, v) == [t |-> t, s |-> sym, v |-> v]

\* A decimal integer literal may start with 0 only when it is all zeros.
LeadingZeros(s, i, j) ==
    j - i > 1 /\ s[i] = "0" /\ \E m \in i..(j - 1) : s[m] # "0"

\* The tokens of s from position i on, depth parentheses being open.  Inside
\* parentheses a line break is white space; outside them it ends the
\* expression, and a stripped string has text after it.
RECURSIVE Tokenize(_, _, _)
Tokenize(s, i, depth) ==
    IF i > Len(s) THEN <<>>
    ELSE IF s[i] = "\n" /\ depth = 0 THEN
        <<Tok("error", "line break", PosZero)>>
    ELSE IF IsSpace(s[i]) THEN Tokenize(s, i + 1, depth)
    ELSE IF IsDigit(s[i]) \/ (s[i] = "." /\ i < Len(s) /\ IsDigit(s[i + 1])) THEN
        With(DigitRunEnd(s, i), LAMBDA j :
            IF j <= Len(s) /\ s[j] = "." THEN
                With(DigitRunEnd(s, j + 1), LAMBDA k :
                    <<Tok("num", "float", LiteralValue(s, i, j, k))>>
                    \o Tokenize(s, k, depth))
            ELSE IF LeadingZeros(s, i, j) THEN
                <<Tok("error", "leading zeros", PosZero)>>
            ELSE
                <<Tok("num", "int", FromInt(DigitsValue(s, i, j)))>>
                \o Tokenize(s, j, depth))
    ELSE IF s[i] = "*" /\ i < Len(s) /\ s[i + 1] = "*" THEN
        <<Tok("op", "**", PosZero)>> \o Tokenize(s, i + 2, depth)
    ELSE IF s[i] = "/" /\ i < Len(s) /\ s[i + 1] = "/" THEN
        <<Tok("op", "//", PosZero)>> \o Tokenize(s, i + 2, depth)
    ELSE IF s[i] = "." /\ i + 2 <= Len(s) /\ s[i + 1] = "." /\ s[i + 2] = "." THEN
        <<Tok("op", "...", PosZero)>> \o Tokenize(s, i + 3, depth)
    ELSE IF s[i] = "(" THEN
        <<Tok("op", "(", PosZero)>> \o With(depth + 1, LAMBDA d : Tokenize(s, i + 1, d))
    ELSE IF s[i] = ")" THEN
        IF depth = 0 THEN <<Tok("error", "unmatched )", PosZero)>>
        ELSE <<Tok("op", ")", PosZero)>> \o With(depth - 1, LAMBDA d : Tokenize(s, i + 1, d))
    ELSE IF s[i] \in OperatorChars \cup {"."} THEN
        <<Tok("op", s[i], PosZero)>> \o Tokenize(s, i + 1, depth)
    ELSE
        <<Tok("error", "invalid character", PosZero)>>

\* Parse trees.
Constant(v) == [k |-> "Constant", v |-> v]

UnaryOp(op, operand) == [k |-> "UnaryOp", op |-> op, operand |-> operand]

BinOp(op, left, right) == [k |-> "BinOp", op |-> op, left |-> left, right |-> right]

Call == [k |-> "Call"]

Tuple == [k |-> "Tuple"]

\* Constant(value=Ellipsis): a Constant that is no int and no float.
EllipsisConstant == [k |-> "Ellipsis"]

Parsed(node, p) == [ok |-> TRUE, node |-> node, p |-> p]

NoParse == [ok |-> FALSE, node |-> Tuple, p |-> 0]

IsOp(t, p, syms) == p <= Len(t) /\ t[p].t = "op" /\ t[p].s \in syms

SumOp(sym) == IF sym = "+" THEN "Add" ELSE "Sub"

TermOp(sym) == IF sym = "*" THEN "Mult" ELSE IF sym = "/" THEN "Div" ELSE "FloorDiv"

UnarySign(sym) == IF sym = "+" THEN "UAdd" ELSE "USub"

\* Python's expression grammar, one rule per case.  The rules that continue
\* a left operand (sum, term, primary) take it as `left`.
RECURSIVE Parse(_, _, _, _)
Parse(rule, t, p, left) ==
    CASE rule = "sum" ->
            \* sum: sum ('+' | '-') term | term
            With(Parse("term", t, p, left), LAMBDA r :
                IF r.ok THEN Parse("sum_rest", t, r.p, r.node) ELSE NoParse)
      [] rule = "sum_rest" ->
            IF IsOp(t, p, {"+", "-"}) THEN
                With(Parse("term", t, p + 1, left), LAMBDA r :
                    IF r.ok
                    THEN Parse("sum_rest", t, r.p, BinOp(SumOp(t[p].s), left, r.node))
                    ELSE NoParse)
            ELSE Parsed(left, p)
      [] rule = "term" ->
            \* term: term ('*' | '/' | '//') factor | factor
            With(Parse("factor", t, p, left), LAMBDA r :
                IF r.ok THEN Parse("term_rest", t, r.p, r.node) ELSE NoParse)
      [] rule = "term_rest" ->
            IF IsOp(t, p, {"*", "/", "//"}) THEN
                With(Parse("factor", t, p + 1, left), LAMBDA r :
                    IF r.ok
                    THEN Parse("term_rest", t, r.p, BinOp(TermOp(t[p].s), left, r.node))
                    ELSE NoParse)
            ELSE Parsed(left, p)
      [] rule = "factor" ->
            \* factor: ('+' | '-') factor | power
            IF IsOp(t, p, {"+", "-"}) THEN
                With(Parse("factor", t, p + 1, left), LAMBDA r :
                    IF r.ok THEN Parsed(UnaryOp(UnarySign(t[p].s), r.node), r.p)
                    ELSE NoParse)
            ELSE Parse("power", t, p, left)
      [] rule = "power" ->
            \* power: primary ['**' factor]
            With(Parse("primary", t, p, left), LAMBDA r :
                IF r.ok /\ IsOp(t, r.p, {"**"}) THEN
                    With(Parse("factor", t, r.p + 1, left), LAMBDA f :
                        IF f.ok THEN Parsed(BinOp("Pow", r.node, f.node), f.p)
                        ELSE NoParse)
                ELSE r)
      [] rule = "primary" ->
            \* primary: primary '(' [argument] ')' | atom, an argument being an
            \* expression, '*' expression or '**' expression
            With(Parse("atom", t, p, left), LAMBDA r :
                IF r.ok THEN Parse("primary_rest", t, r.p, r.node) ELSE NoParse)
      [] rule = "primary_rest" ->
            IF IsOp(t, p, {"("}) THEN
                IF IsOp(t, p + 1, {")"}) THEN Parse("primary_rest", t, p + 2, Call)
                ELSE
                    With(Parse("sum", t, IF IsOp(t, p + 1, {"*", "**"}) THEN p + 2 ELSE p + 1,
                               left), LAMBDA r :
                        IF r.ok /\ IsOp(t, r.p, {")"})
                        THEN Parse("primary_rest", t, r.p + 1, Call)
                        ELSE NoParse)
            ELSE Parsed(left, p)
      [] rule = "atom" ->
            \* atom: NUMBER | '...' | '(' ')' | '(' expression ')'
            IF p > Len(t) THEN NoParse
            ELSE IF t[p].t = "num" THEN Parsed(Constant(t[p].v), p + 1)
            ELSE IF IsOp(t, p, {"..."}) THEN Parsed(EllipsisConstant, p + 1)
            ELSE IF IsOp(t, p, {"("}) THEN
                IF IsOp(t, p + 1, {")"}) THEN Parsed(Tuple, p + 2)
                ELSE
                    With(Parse("sum", t, p + 1, left), LAMBDA r :
                        IF r.ok /\ IsOp(t, r.p, {")"}) THEN Parsed(r.node, r.p + 1)
                        ELSE NoParse)
            ELSE NoParse

\* The tree of the whole string, or no parse (Python raises SyntaxError).
\* White space at the start of the line is an unexpected indent.  ask passes
\* stripped strings only.
AstParse(s) ==
    IF s # <<>> /\ IsSpace(s[1]) THEN NoParse
    ELSE With(Tokenize(s, 1, 0), LAMBDA t :
        IF \E i \in 1..Len(t) : t[i].t = "error" THEN NoParse
        ELSE With(Parse("sum", t, 1, Tuple), LAMBDA r :
            IF r.ok /\ r.p = Len(t) + 1 THEN r ELSE NoParse))

(***************************************************************************)
(* _eval_ast and _evaluate_pure_expression.                                *)
(***************************************************************************)
\* The dispatch with the operands exchanged.
BinOpSwapped(op, left, right) ==
    CASE op = "Add" -> add(right, left)
      [] op = "Sub" -> subtract(right, left)
      [] op = "Mult" -> multiply(right, left)
      [] op = "Div" -> divide(right, left)
      [] OTHER -> Raise(UnsupportedExpression)

\* The dispatch with ** taken for *.
BinOpPowAsMult(op, left, right) ==
    CASE op = "Add" -> add(left, right)
      [] op = "Sub" -> subtract(left, right)
      [] op \in {"Mult", "Pow"} -> multiply(left, right)
      [] op = "Div" -> divide(left, right)
      [] OTHER -> Raise(UnsupportedExpression)

\* The dispatch of a BinOp node on its operator, both operands evaluated.
ApplyBinOp(op, left, right) ==
    CASE op = "Add" -> add(left, right)
      [] op = "Sub" -> subtract(left, right)
      [] op = "Mult" -> multiply(left, right)
      [] op = "Div" -> divide(left, right)
      [] OTHER -> Raise(UnsupportedExpression)

RECURSIVE EvalAst(_)
EvalAst(node) ==
    CASE node.k = "Constant" -> Ok(node.v)
      [] node.k = "UnaryOp" ->
            With(EvalAst(node.operand), LAMBDA value :
                IF ~value.ok THEN value
                ELSE IF node.op = "UAdd" THEN value ELSE Ok(FNeg(value.val)))
      [] node.k = "BinOp" ->
            With(EvalAst(node.left), LAMBDA left :
                IF ~left.ok THEN left
                ELSE With(EvalAst(node.right), LAMBDA right :
                    IF ~right.ok THEN right
                    ELSE ApplyBinOp(node.op, left.val, right.val)))
      [] OTHER -> Raise(UnsupportedExpression)

EvaluatePureExpression(expression) ==
    With(AstParse(expression), LAMBDA tree :
        IF tree.ok THEN EvalAst(tree.node) ELSE Raise(SyntaxError))

(***************************************************************************)
(* _format_numeric: str(float(value)), Python's repr of a float.  Fixed    *)
(* notation from 1e-4 on, exponent notation below (the model's floats stay *)
(* far below 1e16, where exponent notation starts again).  A decimal       *)
(* expansion that ends is printed whole.  One that does not end is printed *)
(* to ReprDigits significant digits and closed by the element "...": the   *)
(* digits Python prints further depend on the binary rounding of the       *)
(* value, which the model does not hold.                                   *)
(***************************************************************************)
ReprDigits == 6

RECURSIVE StripFactor(_, _)
StripFactor(d, f) ==
    IF d % f = 0 THEN With(d \div f, LAMBDA q : StripFactor(q, f)) ELSE d

\* The decimal expansion of n/d ends.
Terminates(d) == StripFactor(StripFactor(d, 2), 5) = 1

RECURSIVE NatDigits(_)
NatDigits(n) ==
    IF n < 10 THEN <<DigitChar(n)>> ELSE NatDigits(n \div 10) \o <<DigitChar(n % 10)>>

\* The digits of r/d after the decimal point (r < d): all of them, or the
\* first k followed by "...".
RECURSIVE FractionDigits(_, _, _, _)
FractionDigits(r, d, k, exact) ==
    IF r = 0 THEN <<>>
    ELSE IF ~exact /\ k = 0 THEN <<"...">>
    ELSE <<DigitChar((10 * r) \div d)>>
         \o With((10 * r) % d, LAMBDA rest : FractionDigits(rest, d, k - 1, exact))

\* The least k with n * 10^k >= d: the decimal exponent of n/d < 1 is -k.
RECURSIVE DecimalShift(_, _)
DecimalShift(n, d) == IF n >= d THEN 0 ELSE 1 + DecimalShift(10 * n, d)

FixedNotation(n, d) ==
    With(FractionDigits(n % d, d, ReprDigits, Terminates(d)), LAMBDA frac :
        NatDigits(n \div d) \o <<".">> \o (IF frac = <<>> THEN <<"0">> ELSE frac))

ExponentNotation(n, d) ==
    With(DecimalShift(n, d), LAMBDA k :
    With(n * Pow10(k), LAMBDA m :
    With(FractionDigits(m % d, d, ReprDigits, Terminates(d)), LAMBDA frac :
        NatDigits(m \div d) \o (IF frac = <<>> THEN <<>> ELSE <<".">> \o frac)
        \o <<"e", "-">> \o (IF k < 10 THEN <<"0">> ELSE <<>>) \o NatDigits(k))))

FormatNumeric(value) ==
    (IF value[1] = -1 THEN <<"-">> ELSE <<>>)
    \o (IF value[2] # 0 /\ value[2] <= (value[3] - 1) \div 10000
        THEN ExponentNotation(value[2], value[3])
        ELSE FixedNotation(value[2], value[3]))

(***************************************************************************)
(* _extract_numeric_answer: float(candidate), then the last match of       *)
(* -?\d+(?:\.\d+)? in the candidate.                                       *)
(***************************************************************************)
\* float(s) of a stripped string: [sign] (digits ['.' [digits]] | '.' digits)
FloatOf(s) ==
    LET signed == s # <<>> /\ s[1] \in {"+", "-"}
        a == IF signed THEN 2 ELSE 1
        j == DigitRunEnd(s, a)
        dot == j <= Len(s) /\ s[j] = "."
        k == IF dot THEN DigitRunEnd(s, j + 1) ELSE j
        sign == IF signed /\ s[1] = "-" THEN -1 ELSE 1
        v == LiteralValue(s, a, j, IF dot THEN k ELSE j + 1)
    IN  IF k = Len(s) + 1 /\ (j > a \/ (dot /\ k > j + 1))
        THEN Ok(<<sign, v[2], v[3]>>)
        ELSE Raise("ValueError: could not convert string to float")

\* The end (exclusive) of the match of the pattern starting at i, 0 for none.
MatchEnd(s, i) ==
    LET a == IF s[i] = "-" THEN i + 1 ELSE i IN
    IF a <= Len(s) /\ IsDigit(s[a]) THEN
        LET j == DigitRunEnd(s, a) IN
        IF j < Len(s) /\ s[j] = "." /\ IsDigit(s[j + 1])
        THEN DigitRunEnd(s, j + 1) ELSE j
    ELSE 0

\* re.findall: the matches from left to right, none overlapping.
RECURSIVE FindAll(_, _)
FindAll(s, i) ==
    IF i > Len(s) THEN <<>>
    ELSE With(MatchEnd(s, i), LAMBDA e :
             IF e = 0 THEN FindAll(s, i + 1)
             ELSE <<SubSeq(s, i, e - 1)>> \o FindAll(s, e))

\* The normaliser taking the first match instead of the last.
ExtractFirstNumber(text) ==
    With(Strip(text), LAMBDA candidate :
    With(FloatOf(candidate), LAMBDA whole :
    With(FindAll(candidate, 1), LAMBDA numbers :
        IF whole.ok THEN whole
        ELSE IF numbers # <<>> THEN FloatOf(numbers[1])
        ELSE Raise("None"))))

\* Ok(value), or Raise("None") for the None the code returns.
ExtractNumericAnswer(text) ==
    With(Strip(text), LAMBDA candidate :
    With(FloatOf(candidate), LAMBDA whole :
    With(FindAll(candidate, 1), LAMBDA numbers :
        IF whole.ok THEN whole
        ELSE IF numbers # <<>> THEN FloatOf(numbers[Len(numbers)])
        ELSE Raise("None"))))

(***************************************************************************)
(* CalculatorAgent.ask.  The call of the model runtime is its one blocking *)
(* step: ask runs up to it (AskBegin), and from its return (RuntimeReturns)*)
(* or its exception (RuntimeRaises) to the end.  The runtime is an         *)
(* external service: what it returns, and whether it raises, is not        *)
(* decided by this program.                                                *)
(***************************************************************************)
NoResponse == <<>>

\* ask hands its response to its caller: main() prints it and, in one-shot
\* mode, returns, which ends the process with status 0.
ReturnToCaller(text) ==
    /\ response' = text
    /\ askpc' = "idle"
    /\ IF pc \in {"oneshot", "loop"}
       THEN /\ printed' = printed + 1
            /\ stdout' = response'
            /\ pc' = IF pc = "oneshot" THEN "exit" ELSE "loop"
            /\ status' = IF pc = "oneshot" THEN 0 ELSE status
       ELSE UNCHANGED <<pc, status, printed, stdout>>

\* A variant of AskBegin that evaluates a strict expression itself, without
\* asking the runtime first.
AskBeginLocalFirst(q) ==
    \E clean_query \in {Strip(q)} :
    /\ query' = q
    /\ llmRaised' = FALSE
    /\ rawOut' = <<>>
    /\ llmOut' = <<>>
    /\ UNCHANGED <<env, args, fallback>>
    /\ IF clean_query = <<>> THEN
            /\ llmCalls' = 0 /\ fbCalls' = 0 /\ evalRes' = NotEvaluated
            /\ answered' = 1
            /\ ReturnToCaller(OUT_OF_SCOPE_MESSAGE)
       ELSE IF fallback /\ IsStrictPureExpression(clean_query) THEN
            /\ llmCalls' = 0 /\ fbCalls' = 1
            /\ evalRes' = EvaluatePureExpression(clean_query)
            /\ answered' = 1
            /\ ReturnToCaller(IF evalRes'.ok THEN FormatNumeric(evalRes'.val)
                              ELSE TOOL_FAILURE_MESSAGE)
       ELSE /\ llmCalls' = 1 /\ fbCalls' = 0 /\ evalRes' = NotEvaluated
            /\ answered' = 0 /\ response' = NoResponse /\ askpc' = "llm"
            /\ UNCHANGED <<pc, status, printed, stdout>>

\* ask(q) up to the call of the runtime.
AskBegin(q) ==
    \E clean_query \in {Strip(q)} :
    /\ query' = q
    /\ llmRaised' = FALSE
    /\ rawOut' = <<>>
    /\ llmOut' = <<>>
    /\ fbCalls' = 0
    /\ evalRes' = NotEvaluated
    /\ UNCHANGED <<env, args, fallback>>
    /\ IF clean_query = <<>> THEN
            /\ llmCalls' = 0
            /\ answered' = 1
            /\ ReturnToCaller(OUT_OF_SCOPE_MESSAGE)
       ELSE /\ llmCalls' = 1
            /\ answered' = 0
            /\ response' = NoResponse
            /\ askpc' = "llm"
            /\ UNCHANGED <<pc, status, printed, stdout>>

\* What ask returns for the text the runtime gave.
LlmAnswer(llm_output) ==
    With(ExtractNumericAnswer(llm_output), LAMBDA parsed :
        IF parsed.ok THEN FormatNumeric(parsed.val)
        ELSE IF llm_output # <<>> THEN llm_output
        ELSE TOOL_FAILURE_MESSAGE)

\* The runtime returns: _run_langchain strips its output, ask normalises it.
RuntimeReturns(output) ==
    /\ askpc = "llm"
    /\ rawOut' = output
    /\ llmOut' = Strip(output)
    /\ answered' = answered + 1
    /\ ReturnToCaller(LlmAnswer(llmOut'))
    /\ UNCHANGED <<env, args, fallback, user_input, query, llmCalls, fbCalls,
                   llmRaised, evalRes>>

\* The runtime returns one of the outputs.
RuntimeReturnsOneOf(outputs) ==
    /\ askpc = "llm"
    /\ \E output \in outputs : RuntimeReturns(output)

\* The fallback answering with the text of the error it caught.
FallbackLeaksError(result) ==
    IF result.ok THEN FormatNumeric(result.val) ELSE <<result.err>>

\* What ask returns for the outcome of the fallback evaluation.
FallbackAnswer(result) ==
    IF result.ok THEN FormatNumeric(result.val) ELSE TOOL_FAILURE_MESSAGE

\* The runtime raises: the except branch of ask.
RuntimeRaises ==
    \E clean_query \in {Strip(query)} :
    /\ askpc = "llm"
    /\ llmRaised' = TRUE
    /\ answered' = answered + 1
    /\ IF fallback /\ IsStrictPureExpression(clean_query) THEN
            /\ fbCalls' = fbCalls + 1
            /\ evalRes' = EvaluatePureExpression(clean_query)
            /\ ReturnToCaller(FallbackAnswer(evalRes'))
       ELSE /\ UNCHANGED <<fbCalls, evalRes>>
            /\ ReturnToCaller(TOOL_FAILURE_MESSAGE)
    /\ UNCHANGED <<env, args, fallback, user_input, query, llmCalls, rawOut, llmOut>>

\* A caller other than main() (the tests) calls ask on a constructed agent.
\* One call is followed to its end: ask reads nothing an earlier call wrote.
AskOneOf(queries) ==
    /\ pc = "api"
    /\ askpc = "idle"
    /\ answered = 0
    /\ \E q \in queries : AskBegin(q)
    /\ UNCHANGED user_input

(***************************************************************************)
(* main(): construction of the agent, then one-shot or interactive mode.   *)
(***************************************************************************)
UpperCase == <<"A", "B", "C", "D", "E", "F", "G", "H", "I", "J", "K", "L", "M",
               "N", "O", "P", "Q", "R", "S", "T", "U", "V", "W", "X", "Y", "Z">>

LowerCase == <<"a", "b", "c", "d", "e", "f", "g", "h", "i", "j", "k", "l", "m",
               "n", "o", "p", "q", "r", "s", "t", "u", "v", "w", "x", "y", "z">>

LowerChar(c) ==
    IF \E i \in 1..26 : UpperCase[i] = c
    THEN LowerCase[CHOOSE i \in 1..26 : UpperCase[i] = c]
    ELSE c

\* str.lower()
Lower(s) == [i \in 1..Len(s) |-> LowerChar(s[i])]

ExitCommands == {<<"e", "x", "i", "t">>, <<"q", "u", "i", "t">>}

\* `if args.query:` an option that is absent (None) or empty is falsy.
OneShotMode(a) == a.given /\ a.query # <<>>

\* main() up to the choice of the mode: the constructor raises RuntimeError
\* without the key or without the runtime, and main() exits with status 1.
Start ==
    /\ pc = "start"
    /\ IF ~env.key \/ ~env.runtime THEN
            /\ printed' = printed + 1
            /\ stdout' = LLM_SETUP_MESSAGE
            /\ status' = 1
            /\ pc' = "exit"
            /\ UNCHANGED fallback
       ELSE /\ fallback' = args.fallback
            /\ pc' = IF OneShotMode(args) THEN "oneshot" ELSE "loop"
            /\ UNCHANGED <<status, printed, stdout>>
    /\ UNCHANGED <<env, args, user_input, query, askpc, llmCalls, fbCalls, llmRaised,
                   rawOut, llmOut, evalRes, response, answered>>

\* print(agent.ask(args.query)); return
OneShot ==
    /\ pc = "oneshot"
    /\ askpc = "idle"
    /\ AskBegin(args.query)
    /\ UNCHANGED user_input

\* input() returns a line.
ReadLine(line) ==
    /\ pc = "loop"
    /\ askpc = "idle"
    /\ user_input' = Strip(line)
    /\ IF Lower(user_input') \in ExitCommands THEN
            /\ pc' = "exit"
            /\ status' = 0
            /\ UNCHANGED <<env, args, fallback, query, askpc, llmCalls, fbCalls,
                           llmRaised, rawOut, llmOut, evalRes, response, answered,
                           printed, stdout>>
       ELSE /\ printed < MaxLines
            /\ AskBegin(user_input')

\* input() meets the end of standard input: EOFError, which nothing catches,
\* ends the process with a traceback and status 1.
ReadEOF ==
    /\ pc = "loop"
    /\ askpc = "idle"
    /\ pc' = "exit"
    /\ status' = 1
    /\ UNCHANGED <<env, args, fallback, user_input, query, askpc, llmCalls, fbCalls,
                   llmRaised, rawOut, llmOut, evalRes, response, answered, printed,
                   stdout>>

(***************************************************************************)
(* The explored inputs, and the specifications.                            *)
(***************************************************************************)
\* Queries: every string of at most MaxQueryLen of these characters, "w"
\* standing for the letters of natural language.
QueryChars == {"0", "1", " ", "\n", "+", "-", "*", "/", "(", ")", ".", "w"}

Queries == StringsUpTo(QueryChars, MaxQueryLen)

\* Outputs of the runtime met by those queries.
SampleTexts == {<<>>, <<"1">>, <<"w", " ", "1", " ", "-", "2", ".", "5", " ">>,
                <<"w">>, OUT_OF_SCOPE_MESSAGE, TOOL_FAILURE_MESSAGE}

\* Outputs of the runtime: every string of at most MaxTextLen of these
\* characters, and the two fixed messages.
TextChars == {"0", "5", "-", "+", ".", " ", "\n", "w"}

Texts == StringsUpTo(TextChars, MaxTextLen)
             \cup {OUT_OF_SCOPE_MESSAGE, TOOL_FAILURE_MESSAGE}

NormQueries == {<<"w">>, <<"5", "-", "0">>}

\* Expressions: strings without a decimal point, longer ones over fewer characters.
ExprChars == {"0", "2", " ", "\n", "+", "-", "*", "/", "(", ")"}

DeepChars == {"3", "-", "/", "(", ")"}

TermChars == {"0", "2", "/", "*"}

Expressions ==
    StringsUpTo(ExprChars, MaxExprLen) \cup StringsUpTo(DeepChars, MaxDeepLen)
        \cup StringsUpTo(TermChars, MaxDeepLen)

\* The command line and the lines typed at the prompt.
MainQueries == {<<>>, <<" ">>, <<"1", "/", "0">>, <<"w">>, <<"e", "x", "i", "t">>}

MainLines == {<<>>, <<" ">>, <<"1", "+", "1">>, <<"w">>, <<"e", "x", "i", "t">>,
              <<" ", "Q", "U", "I", "T", " ">>, <<"E", "x", "i", "t">>,
              <<"q", "u", "i", "t">>, <<"e", "x", "i", "t", "s">>}

MainTexts == {<<>>, <<"2">>, OUT_OF_SCOPE_MESSAGE}

NoArgs == [given |-> FALSE, query |-> <<>>, fallback |-> FALSE]

\* A constructed agent, before its first query.
AgentInit(flags) ==
    /\ pc = "api"
    /\ status = -1
    /\ env = [key |-> TRUE, runtime |-> TRUE]
    /\ args = NoArgs
    /\ fallback \in flags
    /\ user_input = <<>>
    /\ query = <<>>
    /\ askpc = "idle"
    /\ llmCalls = 0
    /\ fbCalls = 0
    /\ llmRaised = FALSE
    /\ rawOut = <<>>
    /\ llmOut = <<>>
    /\ evalRes = NotEvaluated
    /\ response = NoResponse
    /\ answered = 0
    /\ printed = 0
    /\ stdout = <<>>

Init == AgentInit(BOOLEAN)

Next ==
    \/ AskOneOf(Queries)
    \/ RuntimeReturnsOneOf(SampleTexts)
    \/ RuntimeRaises

\* The agent, asked the queries.
Spec == Init /\ [][Next]_vars

NormNext ==
    \/ AskOneOf(NormQueries)
    \/ RuntimeReturnsOneOf(Texts)
    \/ RuntimeRaises

\* The agent in front of a runtime that returns the texts.
NormSpec == Init /\ [][NormNext]_vars

EvalInit == AgentInit({TRUE})

EvalNext ==
    \/ AskOneOf(Expressions)
    \/ RuntimeRaises

\* The agent with the fallback enabled, in front of a runtime that is down.
EvalSpec == EvalInit /\ [][EvalNext]_vars

\* The process, as main() starts.
MainInit ==
    /\ pc = "start"
    /\ status = -1
    /\ env \in [key : BOOLEAN, runtime : BOOLEAN]
    /\ args \in [given : {FALSE}, query : {<<>>}, fallback : BOOLEAN]
                  \cup [given : {TRUE}, query : MainQueries, fallback : BOOLEAN]
    /\ fallback = FALSE
    /\ user_input = <<>>
    /\ query = <<>>
    /\ askpc = "idle"
    /\ llmCalls = 0
    /\ fbCalls = 0
    /\ llmRaised = FALSE
    /\ rawOut = <<>>
    /\ llmOut = <<>>
    /\ evalRes = NotEvaluated
    /\ response = NoResponse
    /\ answered = 0
    /\ printed = 0
    /\ stdout = <<>>

MainNext ==
    \/ Start
    \/ OneShot
    \/ \E line \in MainLines : ReadLine(line)
    \/ ReadEOF
    \/ RuntimeReturnsOneOf(MainTexts)
    \/ RuntimeRaises

MainSpec == MainInit /\ [][MainNext]_vars

(***************************************************************************)
(* Properties.  An ask is over when it has returned; it has been made when *)
(* it has returned or waits for the runtime.                               *)
(***************************************************************************)
Asked == askpc = "llm" \/ answered > 0

AskDone == pc = "api" /\ askpc = "idle" /\ answered > 0

\* The text is empty or made of white space only.
AllWhitespace(q) == \A i \in 1..Len(q) : q[i] \in Whitespace

\* C1: for every query that is empty or made of white space only, ask
\* returns the fixed out-of-scope message, and neither the model runtime nor
\* the fallback evaluator is invoked for it.
C1_EmptyQueryIsOutOfScope ==
    (Asked /\ AllWhitespace(query)) =>
        /\ askpc = "idle"
        /\ response = OUT_OF_SCOPE_MESSAGE
        /\ llmCalls = 0
        /\ fbCalls = 0
        /\ evalRes = NotEvaluated

\* C1 happens: a query of two spaces has been answered.
C1_Witness ==
    /\ AskDone
    /\ query = <<" ", " ">>
    /\ response = OUT_OF_SCOPE_MESSAGE

\* The strict gate, in the words of the claim: only digits, white space,
\* + - * /, parentheses and decimal points, with a digit and an operator.
StrictSymbols == Digits \cup Whitespace \cup {"+", "-", "*", "/", "(", ")", "."}

PassesStrictGate(q) ==
    /\ \A i \in 1..Len(q) : q[i] \in StrictSymbols
    /\ \E i \in 1..Len(q) : q[i] \in Digits
    /\ \E i \in 1..Len(q) : q[i] \in {"+", "-", "*", "/"}

\* C2: the fallback evaluator runs for a query only if the runtime call
\* raised, the fallback flag is enabled and the trimmed query passes the
\* strict gate; in every other case of a runtime failure ask returns the
\* fixed tool-failure message and evaluates nothing.
C2_FallbackOnlyBehindTheGate ==
    /\ (fbCalls > 0 \/ evalRes # NotEvaluated) =>
            llmRaised /\ fallback /\ PassesStrictGate(Strip(query))
    /\ (AskDone /\ llmRaised /\ ~(fallback /\ PassesStrictGate(Strip(query)))) =>
            /\ response = TOOL_FAILURE_MESSAGE
            /\ fbCalls = 0
            /\ evalRes = NotEvaluated

\* C2 happens: with the fallback enabled the runtime failed on a query that
\* holds a digit and no operator, and nothing was evaluated.
C2_Witness ==
    /\ AskDone
    /\ llmRaised
    /\ fallback
    /\ query = <<" ", "1">>
    /\ fbCalls = 0
    /\ response = TOOL_FAILURE_MESSAGE

\* The tree holds a division whose right operand evaluates to zero.
RECURSIVE DividesByZero(_)
DividesByZero(node) ==
    CASE node.k = "UnaryOp" -> DividesByZero(node.operand)
      [] node.k = "BinOp" ->
            \/ DividesByZero(node.left)
            \/ DividesByZero(node.right)
            \/ /\ node.op = "Div"
               /\ With(EvalAst(node.right), LAMBDA right : right.ok /\ IsZero(right.val))
      [] OTHER -> FALSE

\* The query is an arithmetic expression with a division by zero in it.
QueryDividesByZero(q) ==
    /\ PassesStrictGate(q)
    /\ With(AstParse(q), LAMBDA tree : tree.ok /\ DividesByZero(tree.node))

\* C3: a division by zero, anywhere in the expression asked, always yields
\* the fixed tool-failure message as the response of ask, whether the
\* runtime answered or the fallback did.
C3_DivisionByZeroIsToolFailure ==
    (AskDone /\ QueryDividesByZero(Strip(query))) => response = TOOL_FAILURE_MESSAGE

\* C3 fails: asked 1/0, the runtime returned the text 1 and ask answered 1.0.
C3_Witness ==
    /\ AskDone
    /\ query = <<"1", "/", "0">>
    /\ ~llmRaised
    /\ rawOut = <<"1">>
    /\ response = <<"1", ".", "0">>

(***************************************************************************)
(* Standard operator-precedence arithmetic, read off the written           *)
(* expression: the last + or - that stands between two operands outside    *)
(* every parenthesis splits it; failing that the last * or /; failing that *)
(* a leading sign applies to the rest; failing that a pair of parentheses  *)
(* around the whole is dropped; what remains is a numeral.                 *)
(***************************************************************************)
Undefined == Raise("undefined")

\* Parentheses open before position i.
DepthAt(s, i) ==
    Cardinality({j \in 1..(i - 1) : s[j] = "("}) - Cardinality({j \in 1..(i - 1) : s[j] = ")"})

\* The last position before i that holds no white space, 0 for none.
PrevSolid(s, i) ==
    With({j \in 1..(i - 1) : s[j] \notin Whitespace}, LAMBDA solid :
        IF solid = {} THEN 0 ELSE CHOOSE j \in solid : \A m \in solid : m <= j)

\* A + or - between two operands, outside every parenthesis.
BinarySign(s, i) ==
    /\ s[i] \in {"+", "-"}
    /\ DepthAt(s, i) = 0
    /\ With(PrevSolid(s, i), LAMBDA j : j # 0 /\ (s[j] \in Digits \/ s[j] = ")"))

Last(positions) == CHOOSE i \in positions : \A m \in positions : m <= i

Combine(sym, left, right) ==
    IF ~left.ok \/ ~right.ok THEN Undefined
    ELSE CASE sym = "+" -> Ok(FAdd(left.val, right.val))
           [] sym = "-" -> Ok(FSub(left.val, right.val))
           [] sym = "*" -> Ok(FMul(left.val, right.val))
           [] sym = "/" -> IF IsZero(right.val) THEN Undefined
                           ELSE Ok(FDiv(left.val, right.val))

RECURSIVE Arithmetic(_)
Arithmetic(text) ==
    With(Strip(text), LAMBDA s :
    With({i \in 1..Len(s) : BinarySign(s, i)}, LAMBDA sums :
    With({i \in 1..Len(s) : s[i] \in {"*", "/"} /\ DepthAt(s, i) = 0}, LAMBDA products :
        IF s = <<>> THEN Undefined
        ELSE IF sums # {} THEN
            With(Last(sums), LAMBDA i :
                Combine(s[i], Arithmetic(SubSeq(s, 1, i - 1)),
                        Arithmetic(SubSeq(s, i + 1, Len(s)))))
        ELSE IF products # {} THEN
            With(Last(products), LAMBDA i :
                Combine(s[i], Arithmetic(SubSeq(s, 1, i - 1)),
                        Arithmetic(SubSeq(s, i + 1, Len(s)))))
        ELSE IF s[1] \in {"+", "-"} THEN
            With(Arithmetic(Tail(s)), LAMBDA operand :
                IF ~operand.ok THEN Undefined
                ELSE IF s[1] = "+" THEN operand ELSE Ok(FNeg(operand.val)))
        ELSE IF s[1] = "(" /\ s[Len(s)] = ")" /\ \A i \in 2..Len(s) : DepthAt(s, i) > 0 THEN
            Arithmetic(SubSeq(s, 2, Len(s) - 1))
        ELSE IF \A i \in 1..Len(s) : s[i] \in Digits THEN
            Ok(FromInt(DigitsValue(s, 1, Len(s) + 1)))
        ELSE Undefined)))

\* The same number; arithmetic knows one zero.
SameNumber(a, b) == a = b \/ (IsZero(a) /\ IsZero(b))

\* The evaluation gives the value of the arithmetic, or fails where the
\* arithmetic gives none.
Agrees(result, value) ==
    /\ result.ok <=> value.ok
    /\ result.ok => SameNumber(result.val, value.val)

\* Only digits, the operator characters, parentheses and white space, with
\* a digit and an operator.
InExpressionClass(q) ==
    /\ \A i \in 1..Len(q) : q[i] \in Digits \cup Whitespace \cup {"+", "-", "*", "/", "(", ")"}
    /\ \E i \in 1..Len(q) : q[i] \in Digits
    /\ \E i \in 1..Len(q) : q[i] \in {"+", "-", "*", "/"}

\* A numeral of several digits that starts with 0 and is not zero.
HasLeadingZero(q) ==
    \E i \in 1..Len(q) : \E j \in (i + 1)..Len(q) :
        /\ \A m \in i..j : q[m] \in Digits
        /\ i = 1 \/ q[i - 1] \notin Digits
        /\ q[i] = "0"
        /\ q[j] # "0"

\* A line break outside every parenthesis.
HasOpenLineBreak(q) == \E i \in 1..Len(q) : q[i] = "\n" /\ DepthAt(q, i) = 0

\* The fallback evaluated the trimmed query.
Evaluated == AskDone /\ fbCalls = 1

IsFloatText(t) ==
    /\ t # <<>>
    /\ \A i \in 1..Len(t) : t[i] \in Digits \cup {"-", ".", "e", "..."}
    /\ \E i \in 1..Len(t) : t[i] \in Digits
    /\ \E i \in 1..Len(t) : t[i] \in {".", "e"}

\* The signed decimals of the text, scanned from left to right.
SignedDecimals(text) == FindAll(text, 1)

\* The dispatch of the claim on the text of the runtime, kept being what is
\* passed through when the text holds no number.
Dispatch(text, kept) ==
    With(FloatOf(Strip(text)), LAMBDA literal :
    With(SignedDecimals(text), LAMBDA decimals :
        IF literal.ok THEN FormatNumeric(literal.val)
        ELSE IF decimals # <<>> THEN FormatNumeric(FloatOf(decimals[Len(decimals)]).val)
        ELSE IF kept # <<>> THEN kept
        ELSE TOOL_FAILURE_MESSAGE))

\* The runtime returned text to this ask.
RuntimeAnswered == AskDone /\ llmCalls = 1 /\ ~llmRaised

\* C5, as stated: when the runtime returns text, ask answers the float of
\* the trimmed text if it is one numeric literal, else the float of the last
\* signed decimal in it, else the text unchanged if it is not empty, else
\* the fixed tool-failure message; the fallback evaluator is not run.
C5_NormalizerDispatch ==
    RuntimeAnswered =>
        /\ response = Dispatch(rawOut, rawOut)
        /\ fbCalls = 0

\* C5, amended: the same, the text passed through being the trimmed text,
\* and a text of white space only being answered like the empty text.
C5_NormalizerDispatchOnTrimmedText ==
    RuntimeAnswered =>
        /\ response = Dispatch(rawOut, Strip(rawOut))
        /\ fbCalls = 0
        /\ evalRes = NotEvaluated

\* C5 happens: of the text 5-0.5 the last signed decimal, -0.5, is answered.
C5_Witness ==
    /\ RuntimeAnswered
    /\ rawOut = <<"5", "-", "0", ".", "5">>
    /\ response = <<"-", "0", ".", "5">>

\* C6: ask returns exactly one response, whatever the query, the runtime
\* and the evaluator do, and when the runtime call or the fallback
\* evaluation raised, that response is the fixed tool-failure message or a
\* float-formatted result of the fallback, never the text of the error.
C6_ErrorsSurfaceAsFixedText ==
    /\ answered <= 1
    /\ AskDone => response # NoResponse
    /\ (AskDone /\ llmRaised) =>
            \/ response = TOOL_FAILURE_MESSAGE
            \/ fbCalls = 1 /\ evalRes.ok /\ IsFloatText(response)
    /\ (AskDone /\ fbCalls = 1 /\ ~evalRes.ok) => response = TOOL_FAILURE_MESSAGE

\* C6 happens: the runtime raised, the fallback evaluation raised the
\* division-by-zero error, and the answer is the fixed message.
C6_Witness ==
    /\ AskDone
    /\ llmRaised
    /\ fbCalls = 1
    /\ evalRes = Raise(DivisionByZero)
    /\ response = TOOL_FAILURE_MESSAGE

\* The process could be set up: the key is there and the runtime was built.
SetUp == env.key /\ env.runtime

\* C7: the unavailable runtime is the sole fatal condition: raised at
\* construction, it makes main() print the setup message and exit with
\* status 1 before any query is processed, and nothing else ends the
\* process with a status other than 0.
C7_OnlySetupIsFatal ==
    /\ (pc = "exit" /\ ~SetUp) =>
            /\ status = 1
            /\ stdout = LLM_SETUP_MESSAGE
            /\ printed = 1
            /\ llmCalls = 0
            /\ response = NoResponse
    /\ status \notin {-1, 0} => ~SetUp

\* C7 fails: the process was set up, and ended with status 1 at the end of
\* its input.
C7_Witness ==
    /\ SetUp
    /\ pc = "exit"
    /\ status = 1
    /\ ~args.given

\* C8: when a one-shot query is given, whatever its content, the process
\* answers it once and ends without entering the interactive loop; the loop
\* is used only when the option is omitted, and ends at the first line that
\* is exit or quit once trimmed and lowered.
C8_ModeSelection ==
    /\ args.given => pc # "loop"
    /\ (args.given /\ SetUp /\ pc = "exit") =>
            /\ printed = 1
            /\ query = args.query
            /\ stdout = response
            /\ status = 0
    /\ pc = "loop" => Lower(user_input) \notin ExitCommands
    /\ (~args.given /\ SetUp /\ pc = "exit") => Lower(user_input) \in ExitCommands

\* C8 fails: the empty query was given, and the process is in the loop.
C8_Witness ==
    /\ args.given
    /\ args.query = <<>>
    /\ pc = "loop"

RECURSIVE Supported(_)
Supported(node) ==
    CASE node.k = "Constant" -> TRUE
      [] node.k = "UnaryOp" -> node.op \in {"UAdd", "USub"} /\ Supported(node.operand)
      [] node.k = "BinOp" ->
            /\ node.op \in {"Add", "Sub", "Mult", "Div"}
            /\ Supported(node.left)
            /\ Supported(node.right)
      [] OTHER -> FALSE

\* The parse of the string failed, or its tree holds another node.
OutsideTheEvaluator(q) ==
    With(AstParse(q), LAMBDA tree : ~tree.ok \/ ~Supported(tree.node))

\* C10, as stated: for every gate-passing string whose parse fails or whose
\* tree holds a node other than a numeric literal, a unary + or -, or one of
\* the four binary operators, the evaluation signals the unsupported-
\* expression error (a syntax error when the parse fails) and ask returns
\* the fixed tool-failure message, never a number.
C10_OtherNodesAreUnsupported ==
    (Evaluated /\ OutsideTheEvaluator(Strip(query))) =>
        /\ ~evalRes.ok
        /\ evalRes.err \in {UnsupportedExpression, SyntaxError}
        /\ response = TOOL_FAILURE_MESSAGE

\* C10, amended: for every such string the evaluation signals an error (a
\* syntax error when the parse fails; else the unsupported-expression error,
\* or the division-by-zero error of a division evaluated before the other
\* node is reached) and ask returns the fixed tool-failure message, never a
\* number.
C10_OtherNodesAreErrors ==
    (Evaluated /\ OutsideTheEvaluator(Strip(query))) =>
        /\ ~evalRes.ok
        /\ evalRes.err = SyntaxError <=> ~AstParse(Strip(query)).ok
        /\ evalRes.err \in {UnsupportedExpression, SyntaxError, DivisionByZero}
        /\ response = TOOL_FAILURE_MESSAGE

\* C10 happens: in 2/0//2 the division by zero is evaluated before the
\* floor division is reached, and the answer is the fixed message.
C10_Witness ==
    /\ Evaluated
    /\ query = <<"2", "/", "0", "/", "/", "2">>
    /\ evalRes = Raise(DivisionByZero)
    /\ response = TOOL_FAILURE_MESSAGE

====
